---- MODULE Spec2Model ----
(***************************************************************************)
(* Model of the traffic-data pipeline of src/traffic_data_app.py:          *)
(*   fetch_data                  (HTTP fetch with retries, memoized)       *)
(*   fetch_batch_traffic_data    (monthly batch over a thread pool)        *)
(*   fetch_weekly_traffic_data   (week resolver and weekly fetch)          *)
(*   sum_traffic_data            (monthly aggregation)                     *)
(*                                                                         *)
(* Python values are represented as follows.                               *)
(*   None / a value v      the sequences << >> / << v >>                   *)
(*   dict                  a record, or a function on its keys             *)
(*   list                  a sequence                                      *)
(*   datetime              the proleptic Gregorian ordinal (toordinal())   *)
(*   timedelta             a number of days                                *)
(***************************************************************************)
EXTENDS Integers, Sequences, FiniteSets, TLC

VARIABLES
    \* ---- the request being served (one call of a fetch_* function)
    pc,            \* position of the main thread
    year,          \* argument year
    point_ids,     \* argument point_ids
    week_numbers,  \* argument week_numbers (weekly fetch)
    \* ---- fetch_weekly_traffic_data locals
    wi,            \* index of week_num in week_numbers
    week_num,      \* week_numbers[wi] once the week has begun (0 before)
    pj,            \* index of point_id in point_ids
    week_start,    \* datetime, as ordinal (0 before the first week)
    week_end,
    week_data,     \* dict point_id -> week_average
    wresult,       \* dict "Uke N" -> week_data, keyed here by N
    \* ---- fetch_batch_traffic_data locals
    futures,       \* future_to_point: per submitted point_id its Future
    bi,            \* index of the future the main thread waits for
    bresult,       \* dict point_id -> monthly_data
    result_keys,   \* the keys of that dict in the order they were inserted
    first_done,    \* the future whose fetch completed first (0: none has)
    \* ---- observations
    fetched,       \* the queries fetch_data was called with
    contributed,   \* per week_num: the points that were assigned into week_data
    \* ---- one invocation of fetch_data
    net,           \* what each successive POST of the invocation ends in
    inv,           \* the locals of the invocation
    \* ---- fetch_data behind st.cache_data, called from several threads
    cache,         \* dict query -> memoized return value and its time
    lock,          \* per query: the caller that holds the compute lock
    now,           \* the clock, in seconds
    callers,       \* per calling thread: its position in the cached call
    cleared,       \* the queries that were memoized when the cache was cleared
                   \* and whose function body did not return since
    \* ---- sum_traffic_data
    traffic_data_dict,  \* the argument: per point its byMonth list, in dict order
    sums,          \* the return value (None before the call)
    \* ---- main: the frame of the chosen comparison and what is derived from it
    comparison_mode,    \* "none" before "Analyser data" is pressed
    year_list,     \* the years of "Sammenlign år", as entered
    df,            \* the frame (None before; Some(None) when there is no data)
    seasonal_patterns,
    growth_df,
    advanced_stats,
    tab4,          \* what the toll tab shows, per point
    exemption_analysis  \* analyze_toll_exemptions: arguments and return value

weeklyvars == <<week_numbers, wi, week_num, pj, week_start, week_end, week_data,
                wresult, contributed>>
batchvars == <<futures, bi, bresult, result_keys, first_done>>
reqvars == <<pc, year, point_ids, fetched, weeklyvars, batchvars>>
retryvars == <<net, inv>>
fetchvars == <<cache, lock, now, callers, cleared>>
aggvars == <<traffic_data_dict, sums>>
statvars == <<comparison_mode, year_list, df, seasonal_patterns, growth_df,
              advanced_stats, tab4, exemption_analysis>>

vars == <<reqvars, retryvars, fetchvars, aggvars, statvars>>

\* what the actions of one component leave alone
notweekly == <<batchvars, retryvars, fetchvars, aggvars, statvars>>
notbatch == <<weeklyvars, retryvars, fetchvars, aggvars, statvars>>
notretry == <<reqvars, fetchvars, aggvars, statvars>>
notfetch == <<reqvars, retryvars, aggvars, statvars>>
notagg == <<reqvars, retryvars, fetchvars, statvars>>
notstat == <<reqvars, retryvars, fetchvars, aggvars>>

----------------------------------------------------------------------------
(* Program constants *)
MinYear == 2019
MaxInputYear == 2026
MaxWeekNo == 52
API_MAX_RETRIES == 3
API_RETRY_DELAY == 1

(* Bounds of the model *)
YearsBelow == 1      \* how many years before MinYear a request may name
MaxDays == 2         \* longest list of day edges in a weekly response
MaxPoints == 4       \* longest point_ids list of a monthly batch
MaxTicks == 2        \* how often the clock advances

None == << >>
Some(v) == << v >>
IsNone(x) == x = << >>
Val(x) == x[1]

Years == (MinYear - YearsBelow)..MaxInputYear
AllPoints == <<"A", "B", "C", "D", "E">>

Range(s) == {s[i] : i \in DOMAIN s}

----------------------------------------------------------------------------
(* datetime arithmetic, as CPython's datetime module computes it *)

IsLeap(y) == y % 4 = 0 /\ (y % 100 # 0 \/ y % 400 = 0)

DaysBeforeYear(y) ==
    LET p == y - 1 IN p * 365 + (p \div 4) - (p \div 100) + (p \div 400)

DaysInMonth(y, m) ==
    IF m = 2 THEN (IF IsLeap(y) THEN 29 ELSE 28)
    ELSE IF m \in {4, 6, 9, 11} THEN 30 ELSE 31

RECURSIVE DaysBeforeMonth(_, _)
DaysBeforeMonth(y, m) ==
    IF m = 1 THEN 0 ELSE DaysBeforeMonth(y, m - 1) + DaysInMonth(y, m - 1)

\* datetime(y, m, d)
datetime(y, m, d) == DaysBeforeYear(y) + DaysBeforeMonth(y, m) + d

\* dt.year
YearOf(dt) ==
    CHOOSE y \in (MinYear - YearsBelow - 2)..(MaxInputYear + 2) :
        DaysBeforeYear(y) < dt /\ dt <= DaysBeforeYear(y + 1)

\* dt.weekday(): Monday is 0
weekday(dt) == (dt + 6) % 7

\* dt.strftime("%Y-%m-%d"): the fields the format prints
strftime(dt) ==
    LET y == YearOf(dt)
        n == dt - DaysBeforeYear(y)
        m == CHOOSE k \in 1..12 :
                 DaysBeforeMonth(y, k) < n /\ n <= DaysBeforeMonth(y, k) + DaysInMonth(y, k)
    IN  <<y, m, n - DaysBeforeMonth(y, m)>>

----------------------------------------------------------------------------
(* fetch_weekly_traffic_data: the week resolver (lines 262-272) *)

week_1_start_unadjusted(y) ==
    LET jan_1 == datetime(y, 1, 1) IN jan_1 - weekday(jan_1)

week_1_start_of(y) ==
    LET jan_1 == datetime(y, 1, 1)
        w     == jan_1 - weekday(jan_1)
    IN  IF YearOf(w) < y THEN w + 7 ELSE w

week_start_of(y, n) == week_1_start_of(y) + 7 * (n - 1)

week_end_a_week_later(ws) == ws + 7

week_end_of(ws) == ws + 6

\* the negation of the `continue` condition of line 271
within_year(y, ws, we) == ~(YearOf(ws) # y \/ YearOf(we) # y)

----------------------------------------------------------------------------
(* fetch_data, lines 179-212.  One POST ends in a timeout, in another      *)
(* RequestException (connection error, HTTP error status from             *)
(* raise_for_status, undecodable body) or in a decoded JSON body.          *)

Timeout == [kind |-> "timeout", body |-> None]
ReqError == [kind |-> "reqerr", body |-> None]
Response(b) == [kind |-> "response", body |-> Some(b)]
Failures == {Timeout, ReqError}

\* the locals of one invocation, with what it showed (notice, msg), how long
\* it slept before each retry and how many POSTs it issued
InvInit ==
    [attempt |-> 0, status |-> "running", ret |-> None, notice |-> "none",
     msg |-> None, slept |-> << >>, posts |-> 0]

\* one iteration of `for attempt in range(API_MAX_RETRIES)`
fetch_attempt_one_more(st, o) ==
    LET last   == st.attempt = API_MAX_RETRIES
        posted == [st EXCEPT !.posts = @ + 1]
    IN  IF o.kind = "response"
        THEN [posted EXCEPT !.status = "returned", !.ret = o.body]
        ELSE IF last THEN [posted EXCEPT !.status = "returned"]
                     ELSE [posted EXCEPT !.attempt = @ + 1]

fetch_attempt_retrying_errors(st, o) ==
    LET last   == st.attempt = API_MAX_RETRIES - 1
        posted == [st EXCEPT !.posts = @ + 1]
    IN  IF o.kind = "response" /\ "errors" \notin DOMAIN Val(o.body)
        THEN [posted EXCEPT !.status = "returned", !.ret = o.body]
        ELSE IF last THEN [posted EXCEPT !.status = "returned", !.notice = "request"]
                     ELSE [posted EXCEPT !.attempt = @ + 1]

fetch_attempt(st, o) ==
    LET last   == st.attempt = API_MAX_RETRIES - 1
        posted == [st EXCEPT !.posts = @ + 1]
    IN  CASE o.kind = "response" ->
                LET data == Val(o.body) IN
                IF "errors" \in DOMAIN data
                THEN [posted EXCEPT !.status = "returned", !.ret = None,
                                    !.notice = "graphql",
                                    !.msg = Some(data.errors[1].message)]
                ELSE [posted EXCEPT !.status = "returned", !.ret = Some(data)]
          [] o.kind = "timeout" ->
                IF last
                THEN [posted EXCEPT !.status = "returned", !.ret = None,
                                    !.notice = "timeout"]
                ELSE [posted EXCEPT !.attempt = @ + 1]
          [] o.kind = "reqerr" ->
                IF last
                THEN [posted EXCEPT !.status = "returned", !.ret = None,
                                    !.notice = "request"]
                ELSE [posted EXCEPT !.attempt = @ + 1,
                                    !.slept = Append(@, API_RETRY_DELAY * (st.attempt + 1))]

\* a whole invocation, given what the successive POSTs end in
RECURSIVE fetch_from(_, _)
fetch_from(st, outs) ==
    IF st.status # "running" \/ outs = << >> THEN st
    ELSE fetch_from(fetch_attempt(st, Head(outs)), Tail(outs))

fetch_data_run(outs) == fetch_from(InvInit, outs)

\* what the network can do to one invocation: failures, then a body, or
\* API_MAX_RETRIES failures
NetworkRuns(bodies) ==
    LET fails(n) == [1..n -> Failures] IN
    UNION {{f \o <<Response(b)>> : f \in fails(n), b \in bodies} :
              n \in 0..(API_MAX_RETRIES - 1)}
    \cup fails(API_MAX_RETRIES)

\* the values fetch_data can return to its caller for such bodies
fetch_data_returns(bodies) == {fetch_data_run(r).ret : r \in NetworkRuns(bodies)}

GraphQLError(msgs) == [errors |-> [i \in DOMAIN msgs |-> [message |-> msgs[i]]]]

\* dict assignment d[k] = v
Put(d, k, v) == [x \in DOMAIN d \cup {k} |-> IF x = k THEN v ELSE d[x]]
EmptyDict == [x \in {} |-> None]

----------------------------------------------------------------------------
(* Weekly responses: data.trafficData.volume.byDay.edges[].node.total     *)
(* A day node has volumeNumbers (null when numbers is FALSE) and in it a   *)
(* volume (which may be null).                                             *)

DayNodes ==
    {[numbers |-> FALSE, volume |-> None], [numbers |-> TRUE, volume |-> None],
     [numbers |-> TRUE, volume |-> Some(10)], [numbers |-> TRUE, volume |-> Some(30)]}

EdgeLists == UNION {[1..n -> DayNodes] : n \in 0..MaxDays}

WeeklyBodies ==
    {GraphQLError(<<"m1">>)}
    \cup {[data |-> [trafficData |-> None]]}
    \cup {[data |-> [trafficData |-> Some([edges |-> e])]] : e \in EdgeLists}

WeeklyReturns == fetch_data_returns(WeeklyBodies)

RECURSIVE GCD(_, _)
GCD(a, b) == IF b = 0 THEN a ELSE GCD(b, a % b)

\* total_volume / valid_days, an exact quotient <<numerator, denominator>>
Quotient(n, d) == LET g == GCD(n, d) IN <<n \div g, d \div g>>

\* the loop of lines 291-295 over the day edges: raised is the TypeError of
\* subscripting a null volumeNumbers
RECURSIVE sum_days(_, _)
sum_days(edges, acc) ==
    IF edges = << >> \/ acc.raised THEN acc
    ELSE LET node == Head(edges) IN
         IF ~node.numbers THEN [acc EXCEPT !.raised = TRUE]
         ELSE IF ~IsNone(node.volume)
              THEN sum_days(Tail(edges),
                            [acc EXCEPT !.total_volume = @ + Val(node.volume),
                                        !.valid_days = @ + 1])
              ELSE sum_days(Tail(edges), acc)

\* lines 286-299 for one point: whether reading raised, and the week_average
\* to store (None: nothing is stored)
read_week(data) ==
    IF ~IsNone(data) /\ "data" \in DOMAIN Val(data)
       /\ ~IsNone(Val(data).data.trafficData)
    THEN LET daily_data == Val(Val(data).data.trafficData).edges
             acc == sum_days(daily_data,
                             [raised |-> FALSE, total_volume |-> 0, valid_days |-> 0])
         IN  IF acc.raised THEN [raised |-> TRUE, week_average |-> None]
             ELSE IF acc.valid_days > 0
                  THEN [raised |-> FALSE,
                        week_average |-> Some(Quotient(acc.total_volume, acc.valid_days))]
                  ELSE [raised |-> FALSE, week_average |-> None]
    ELSE [raised |-> FALSE, week_average |-> None]

\* WEEKLY_QUERY_TEMPLATE.format(...): the query text is determined by its fields
weekly_query(point_id, ws, we) ==
    [template |-> "weekly", point_id |-> point_id, args |-> <<strftime(ws), strftime(we)>>]

----------------------------------------------------------------------------
(* The inputs of a weekly request *)

WeeklyPointLists == {<<"A">>, <<"A", "B">>}

\* week_numbers: every single week, and two weeks in either order at both
\* ends of the year (st.multiselect returns the weeks in the order picked)
WeekLists ==
    {<<w>> : w \in 1..MaxWeekNo}
    \cup {<<1, 2>>, <<2, 1>>, <<MaxWeekNo - 1, MaxWeekNo>>, <<MaxWeekNo, MaxWeekNo - 1>>}

----------------------------------------------------------------------------
(* fetch_weekly_traffic_data, lines 251-308 *)

\* line 253
weekly_year_rejected(y) == y < MinYear

\* the call: the year guard of lines 253-255, then result = {}
WeeklyCall ==
    /\ pc = "idle"
    /\ \E y \in Years, pts \in WeeklyPointLists, wks \in WeekLists :
          /\ year' = y
          /\ point_ids' = pts
          /\ week_numbers' = wks
          /\ pc' = IF weekly_year_rejected(y) THEN "returned" ELSE "week"
    /\ wi' = 1
    /\ wresult' = EmptyDict
    /\ UNCHANGED <<week_num, pj, week_start, week_end, week_data, fetched, contributed>>
    /\ UNCHANGED notweekly

\* lines 259-277: the dates of week_numbers[wi]; a week that leaves the
\* year is skipped by `continue`
WeekBegin ==
    /\ pc = "week"
    /\ wi <= Len(week_numbers)
    /\ LET ws == week_start_of(year, week_numbers[wi])
           we == week_end_of(ws)
       IN  /\ week_num' = week_numbers[wi]
           /\ week_start' = ws
           /\ week_end' = we
           /\ IF within_year(year, ws, we)
              THEN /\ pc' = "points"
                   /\ pj' = 1
                   /\ week_data' = EmptyDict
                   /\ wi' = wi
              ELSE /\ pc' = "week"
                   /\ wi' = wi + 1
                   /\ UNCHANGED <<pj, week_data>>
    /\ UNCHANGED <<year, point_ids, week_numbers, wresult, fetched, contributed>>
    /\ UNCHANGED notweekly

\* lines 278-299 for point_ids[pj]: the query, fetch_data, the reading of the
\* response; an exception leaves the week by the handler of line 304
WeekPoint ==
    /\ pc = "points"
    /\ pj <= Len(point_ids)
    /\ \E data \in WeeklyReturns :
          LET point_id == point_ids[pj]
              r == read_week(data)
          IN  /\ fetched' = fetched \cup {weekly_query(point_id, week_start, week_end)}
              /\ IF r.raised
                 THEN /\ pc' = "week"
                      /\ wi' = wi + 1
                      /\ UNCHANGED <<pj, week_data, contributed>>
                 ELSE /\ pc' = "points"
                      /\ pj' = pj + 1
                      /\ wi' = wi
                      /\ IF IsNone(r.week_average)
                         THEN UNCHANGED <<week_data, contributed>>
                         ELSE /\ week_data' = Put(week_data, point_id, Val(r.week_average))
                              /\ contributed' =
                                    Put(contributed, week_num,
                                        (IF week_num \in DOMAIN contributed
                                         THEN contributed[week_num] ELSE {})
                                        \cup {point_id})
    /\ UNCHANGED <<year, point_ids, week_numbers, week_num, week_start, week_end, wresult>>
    /\ UNCHANGED notweekly

\* lines 301-302: the week enters the result when week_data is not empty
WeekEnd ==
    /\ pc = "points"
    /\ pj > Len(point_ids)
    /\ wresult' = IF DOMAIN week_data # {}
                  THEN Put(wresult, week_num, week_data)
                  ELSE wresult
    /\ wi' = wi + 1
    /\ pc' = "week"
    /\ UNCHANGED <<year, point_ids, week_numbers, week_num, pj, week_start,
                   week_end, week_data, fetched, contributed>>
    /\ UNCHANGED notweekly

\* line 308
WeeklyReturn ==
    /\ pc = "week"
    /\ wi > Len(week_numbers)
    /\ pc' = "returned"
    /\ UNCHANGED <<year, point_ids, week_numbers, wi, week_num, pj, week_start,
                   week_end, week_data, wresult, fetched, contributed>>
    /\ UNCHANGED notweekly

----------------------------------------------------------------------------
(* Monthly responses: data.trafficData.volume.average.daily.byMonth[]      *)
(* An entry has a month and total.volume (null when volume is None), which *)
(* holds average (may be null) and, when the key is present,               *)
(* confidenceInterval (may be null) with lowerBound and upperBound.        *)

VolumeWithCI(avg, lo, hi) ==
    [average |-> avg,
     confidenceInterval |-> Some([lowerBound |-> lo, upperBound |-> hi])]
VolumeNullCI(avg) == [average |-> avg, confidenceInterval |-> None]
VolumeNoCI(avg) == [average |-> avg]

Entry(m, vol) == [month |-> m, volume |-> vol]

\* the byMonth lists a batch may receive; daily is null in a malformed body
BatchMonthLists ==
    {<< >>,
     <<Entry(1, Some(VolumeWithCI(Some(100), Some(90), Some(110))))>>,
     <<Entry(1, Some(VolumeWithCI(Some(100), Some(90), Some(110)))),
       Entry(2, Some(VolumeWithCI(None, None, None)))>>}

MonthlyBodies ==
    {GraphQLError(<<"m1">>)}
    \cup {[data |-> [trafficData |-> None]]}
    \cup {[data |-> [trafficData |-> Some([daily |-> None])]]}
    \cup {[data |-> [trafficData |-> Some([daily |-> Some([byMonth |-> l])])]] :
             l \in BatchMonthLists}

MonthlyReturns == fetch_data_returns(MonthlyBodies)

\* QUERY_TEMPLATE.format(point_id=..., year=...)
monthly_query(point_id, y) ==
    [template |-> "monthly", point_id |-> point_id, args |-> <<y>>]

\* lines 235-243 for one future: whether reading raised (the TypeError of
\* subscripting null), and the monthly_data to store (None: nothing stored)
read_month(data) ==
    IF ~IsNone(data) /\ "data" \in DOMAIN Val(data)
       /\ ~IsNone(Val(data).data.trafficData)
    THEN LET volume == Val(Val(data).data.trafficData)
             daily == volume.daily
         IN
         IF "daily" \notin DOMAIN volume \/ IsNone(daily)
         THEN [raised |-> TRUE, monthly_data |-> None]
         ELSE IF Val(daily).byMonth # << >>
              THEN [raised |-> FALSE, monthly_data |-> Some(Val(daily).byMonth)]
              ELSE [raised |-> FALSE, monthly_data |-> None]
    ELSE [raised |-> FALSE, monthly_data |-> None]

\* the years of a batch: the body uses the year in the guard of line 217 and
\* in the query text only
BatchYears == (MinYear - YearsBelow)..(MinYear + 1)

\* TRAFFIC_POINTS["Ryfylketunnelen"]["ids"], line 28: "99040V2725982" is
\* listed before "00911V2725983", the greater id before the smaller
RyfylkePoints == <<"B", "A">>

\* point_ids of a batch: the first n of AllPoints, or that list
BatchPointLists ==
    {SubSeq(AllPoints, 1, n) : n \in 1..MaxPoints} \cup {RyfylkePoints}

max_workers == 3

Running == {i \in DOMAIN futures : futures[i].state = "running"}

----------------------------------------------------------------------------
(* fetch_batch_traffic_data, lines 215-248 *)

batch_year_rejected_below(y) == y < MinYear - 1

\* line 217
batch_year_rejected(y) == y < MinYear

\* a future.result() and a shutdown that do not wait
future_not_awaited(f) == TRUE

\* future.result() (line 235) and the shutdown(wait=True) that ends the
\* `with` block of line 224 return once the future is resolved
future_resolved(f) == f.state = "finished"

\* a loop that takes the future that completed first before the others
future_completed_first(fs, first, k) ==
    IF first = 0 \/ k > first THEN k
    ELSE IF k = 1 THEN first ELSE k - 1

\* `for future in future_to_point` (line 232): the k-th key of the dict, and
\* a dict keeps its keys in the order of insertion, here of submission
next_future(fs, first, k) == k

\* the call: the year guard of lines 217-219, then result = {}
BatchCall ==
    /\ pc = "idle"
    /\ \E y \in BatchYears, pts \in BatchPointLists :
          /\ year' = y
          /\ point_ids' = pts
          /\ pc' = IF batch_year_rejected(y) THEN "returned" ELSE "submit"
    /\ bresult' = EmptyDict
    /\ result_keys' = << >>
    /\ futures' = << >>
    /\ first_done' = 0
    /\ UNCHANGED <<bi, fetched>>
    /\ UNCHANGED notbatch

\* lines 227-230: executor.submit(fetch_data, query) for the next point_id
BatchSubmit ==
    /\ pc = "submit"
    /\ futures' = Append(futures, [state |-> "pending", ret |-> None])
    /\ pc' = IF Len(futures) + 1 = Len(point_ids) THEN "collect" ELSE "submit"
    /\ bi' = 1
    /\ UNCHANGED <<year, point_ids, bresult, result_keys, first_done, fetched>>
    /\ UNCHANGED notbatch

\* a pool whose every work item gets a thread of its own at once
worker_for_every_item(fs) == TRUE

\* ThreadPoolExecutor(max_workers=3), line 224: the pool starts a thread for
\* a submitted work item only while it has fewer than max_workers threads,
\* and a thread runs one work item at a time, so an item is taken from the
\* queue only when fewer than max_workers items are being run
worker_free(fs) ==
    Cardinality({i \in DOMAIN fs : fs[i].state = "running"}) < max_workers

\* a pool thread takes the oldest queued work item and calls fetch_data
WorkerStart ==
    /\ \E i \in DOMAIN futures :
          /\ futures[i].state = "pending"
          /\ \A k \in 1..(i - 1) : futures[k].state # "pending"
          /\ worker_free(futures)
          /\ futures' = [futures EXCEPT ![i].state = "running"]
          /\ fetched' = fetched \cup {monthly_query(point_ids[i], year)}
    /\ UNCHANGED <<pc, year, point_ids, bi, bresult, result_keys, first_done>>
    /\ UNCHANGED notbatch

\* fetch_data returns in the pool thread and the future is resolved
WorkerFinish ==
    /\ \E i \in DOMAIN futures, data \in MonthlyReturns :
          /\ futures[i].state = "running"
          /\ futures' = [futures EXCEPT ![i] = [state |-> "finished", ret |-> data]]
          /\ first_done' = IF first_done = 0 THEN i ELSE first_done
    /\ UNCHANGED <<pc, year, point_ids, bi, bresult, result_keys, fetched>>
    /\ UNCHANGED notbatch

\* lines 232-246 for the next future: future.result() blocks until it is
\* resolved; an exception while reading is caught and the loop continues
BatchCollect ==
    /\ pc = "collect"
    /\ bi <= Len(futures)
    /\ LET f == next_future(futures, first_done, bi)
           r == read_month(futures[f].ret)
           point_id == point_ids[f]
       IN  /\ future_resolved(futures[f])
           /\ IF ~r.raised /\ ~IsNone(r.monthly_data)
              THEN /\ bresult' = Put(bresult, point_id, Val(r.monthly_data))
                   /\ result_keys' = IF point_id \in DOMAIN bresult
                                     THEN result_keys
                                     ELSE Append(result_keys, point_id)
              ELSE UNCHANGED <<bresult, result_keys>>
    /\ bi' = bi + 1
    /\ UNCHANGED <<pc, year, point_ids, futures, first_done, fetched>>
    /\ UNCHANGED notbatch

\* leaving the `with` block (shutdown(wait=True)) and line 248
BatchReturn ==
    /\ pc = "collect"
    /\ bi > Len(futures)
    /\ \A i \in DOMAIN futures : future_resolved(futures[i])
    /\ pc' = "returned"
    /\ UNCHANGED <<year, point_ids, futures, bi, bresult, result_keys, first_done, fetched>>
    /\ UNCHANGED notbatch

----------------------------------------------------------------------------
(* One invocation of fetch_data, attempt by attempt (lines 181-212) *)

Outcomes(bodies) == Failures \cup {Response(b) : b \in bodies}

NoTrafficBody == [data |-> [trafficData |-> None]]
NoEdgesBody == [data |-> [trafficData |-> Some([edges |-> << >>])]]

\* a body with data, with an errors list, and with both
RetryBodies ==
    {NoTrafficBody, GraphQLError(<<"m1">>), GraphQLError(<<"m2", "m1">>),
     [data |-> None, errors |-> GraphQLError(<<"m1", "m2">>).errors]}

\* one POST more than the loop can issue is planned, so that an invocation
\* that went on would be seen
NetPlans == [1..(API_MAX_RETRIES + 1) -> Outcomes(RetryBodies)]

FetchAttempt ==
    /\ inv.status = "running"
    /\ inv' = fetch_attempt(inv, net[inv.posts + 1])
    /\ UNCHANGED net
    /\ UNCHANGED notretry

----------------------------------------------------------------------------
(* fetch_data behind @st.cache_data(ttl=API_CACHE_TTL), line 178.          *)
(* Streamlit's cached call reads the cache; on a miss it takes the         *)
(* per-key compute lock, reads the cache again, and only then runs the     *)
(* function and writes the value (a None too) with the time.  The replay   *)
(* of the st.error elements on a hit is left out.                          *)

API_CACHE_TTL == 24 * 3600
TickSeconds == 12 * 3600

Callers == {"t1", "t2"}
\* the query that is also fetched on its own: the query of a sensor that is
\* in two lists of point ids (Bybrua "Mot nord", also in "Begge retninger",
\* lines 892-895)
FetchQueries == {"q1"}

\* a monthly response with data
MonthBody ==
    [data |-> [trafficData |-> Some([daily |-> Some([byMonth |->
        <<Entry(1, Some(VolumeNoCI(Some(100))))>>])])]]

FetchBodies == {NoTrafficBody, NoEdgesBody, GraphQLError(<<"m1">>), MonthBody}

\* fetch_batch_traffic_data(point_ids, year) behind the same decorator (line
\* 214; fetch_weekly_traffic_data has it at line 250): one call of it, as a
\* key of the cache, and the queries its body submits (lines 227-230)
BatchKeys == {"b1"}
BatchQueries == <<"q1", "q2">>
CacheKeys == FetchQueries \cup BatchKeys
LockKeys == CacheKeys \cup Range(BatchQueries)

NoOut == [ret |-> None, posts |-> 0, notice |-> "none", msg |-> None]
CallerInit ==
    [pc |-> "idle", query |-> "q1", inv |-> InvInit, out |-> NoOut,
     hit |-> FALSE, fresh |-> FALSE]

Remove(d, k) == [x \in DOMAIN d \ {k} |-> d[x]]

cache_never_live(q) == FALSE

\* an entry is served until its ttl has passed
cache_live(q) == q \in DOMAIN cache /\ now < cache[q].stamp + API_CACHE_TTL

Served(c, q) ==
    [pc |-> "done", query |-> q, inv |-> InvInit,
     out |-> [NoOut EXCEPT !.ret = cache[q].value], hit |-> TRUE, fresh |-> TRUE]

\* fetch_data(query), or the batch function, is called by thread c: the
\* first read of the cache.  An
\* expired entry is dropped, which ends the window of the calls it served.
CachedCall ==
    /\ \E c \in Callers, q \in CacheKeys :
          /\ callers[c].pc \in {"idle", "done"}
          /\ IF cache_live(q)
             THEN /\ callers' = [callers EXCEPT ![c] = Served(c, q)]
                  /\ UNCHANGED cache
             ELSE /\ cache' = Remove(cache, q)
                  /\ callers' =
                        [d \in Callers |->
                            IF d = c
                            THEN [CallerInit EXCEPT !.pc = "wait", !.query = q,
                                                    !.fresh = TRUE]
                            ELSE IF callers[d].query = q /\ q \in DOMAIN cache
                                 THEN [callers[d] EXCEPT !.fresh = FALSE]
                                 ELSE callers[d]]
    /\ UNCHANGED <<lock, now, cleared>>
    /\ UNCHANGED notfetch

\* the compute lock of the key is taken and the cache is read again
ComputeLock ==
    /\ \E c \in Callers :
          LET q == callers[c].query IN
          /\ callers[c].pc = "wait"
          /\ lock[q] = "free"
          /\ IF cache_live(q)
             THEN /\ callers' = [callers EXCEPT ![c] = Served(c, q)]
                  /\ UNCHANGED lock
             ELSE /\ callers' = [callers EXCEPT ![c].pc = "run"]
                  /\ lock' = [lock EXCEPT ![q] = c]
    /\ UNCHANGED <<cache, now, cleared>>
    /\ UNCHANGED notfetch

\* a cache that keeps no failure value
cache_write_successes(entries, k, value, stamp) ==
    IF value = None THEN entries
    ELSE Put(entries, k, [value |-> value, stamp |-> stamp])

\* the value the function returned is stored, whatever it is, with the time
cache_write(entries, k, value, stamp) ==
    Put(entries, k, [value |-> value, stamp |-> stamp])

\* one POST of the function body; when the body returns, the value is
\* written to the cache and the compute lock is released
Post ==
    /\ \E c \in Callers, o \in Outcomes(FetchBodies) :
          LET q  == callers[c].query
              st == fetch_attempt(callers[c].inv, o)
          IN  /\ callers[c].pc = "run"
              /\ q \in FetchQueries
              /\ IF st.status = "returned"
                 THEN /\ cache' = cache_write(cache, q, st.ret, now)
                      /\ lock' = [lock EXCEPT ![q] = "free"]
                      /\ cleared' = cleared \ {q}
                      /\ callers' =
                            [callers EXCEPT
                                ![c].pc = "done", ![c].inv = InvInit,
                                ![c].out = [ret |-> st.ret, posts |-> st.posts,
                                            notice |-> st.notice, msg |-> st.msg]]
                 ELSE /\ callers' = [callers EXCEPT ![c].inv = st]
                      /\ UNCHANGED <<cache, lock, cleared>>
    /\ UNCHANGED now
    /\ UNCHANGED notfetch

\* what the network does to a fetch_data call of the batch body: a response
\* at once, or API_MAX_RETRIES timeouts
InnerNetworkRuns ==
    {<<Response(b)>> : b \in FetchBodies} \cup {[k \in 1..API_MAX_RETRIES |-> Timeout]}

\* what a fetch_data call of the batch body comes to: the memoized value of
\* a live entry, or a run of fetch_data
InnerRuns(q) ==
    IF cache_live(q) THEN {[ret |-> cache[q].value, posts |-> 0]}
    ELSE {[ret |-> fetch_data_run(r).ret, posts |-> fetch_data_run(r).posts] :
             r \in InnerNetworkRuns}

\* lines 232-246: the dict of the monthly data of the queries that gave some
batch_result(rets) ==
    LET has_data(i) == /\ ~read_month(rets[i]).raised
                       /\ ~IsNone(read_month(rets[i]).monthly_data)
        idx(q) == CHOOSE i \in DOMAIN BatchQueries : BatchQueries[i] = q
    IN  [q \in {BatchQueries[i] : i \in {j \in DOMAIN BatchQueries : has_data(j)}} |->
            Val(read_month(rets[idx(q)]).monthly_data)]

\* the body of fetch_batch_traffic_data, lines 215-248, run under the compute
\* lock of its key: its fetch_data calls go through the cache of fetch_data
\* (a live entry is served, anything else is fetched and memoized), and the
\* dict it returns is written to the cache
BatchBody ==
    /\ \E c \in Callers :
          LET b == callers[c].query
              missed == {q \in Range(BatchQueries) : ~cache_live(q)}
              idx(q) == CHOOSE i \in DOMAIN BatchQueries : BatchQueries[i] = q
          IN  /\ callers[c].pc = "run"
              /\ b \in BatchKeys
              /\ \A q \in missed : lock[q] = "free"
              /\ \E runs \in [DOMAIN BatchQueries ->
                                UNION {InnerRuns(q) : q \in Range(BatchQueries)}] :
                    /\ \A i \in DOMAIN BatchQueries : runs[i] \in InnerRuns(BatchQueries[i])
                    /\ LET result == batch_result([i \in DOMAIN BatchQueries |-> runs[i].ret])
                           inner ==
                               [q \in DOMAIN cache \cup missed |->
                                   IF q \in missed
                                   THEN [value |-> runs[idx(q)].ret, stamp |-> now]
                                   ELSE cache[q]]
                       IN  /\ cache' = cache_write(inner, b, result, now)
                           /\ callers' =
                                 [d \in Callers |->
                                     IF d = c
                                     THEN [callers[c] EXCEPT
                                              !.pc = "done",
                                              !.out = [ret |-> result,
                                                       posts |-> runs[1].posts + runs[2].posts,
                                                       notice |-> "none", msg |-> None]]
                                     ELSE IF callers[d].query \in missed \cap DOMAIN cache
                                          THEN [callers[d] EXCEPT !.fresh = FALSE]
                                          ELSE callers[d]]
              /\ lock' = [lock EXCEPT ![b] = "free"]
              /\ cleared' = cleared \ (missed \cup {b})
    /\ UNCHANGED now
    /\ UNCHANGED notfetch

\* time passes, in steps far longer than a call can take (at most
\* API_MAX_RETRIES timeouts of 15 s and the sleeps between them)
Tick ==
    /\ now < MaxTicks * TickSeconds
    /\ \A c \in Callers : callers[c].pc \in {"idle", "done"}
    /\ now' = now + TickSeconds
    /\ UNCHANGED <<cache, lock, callers, cleared>>
    /\ UNCHANGED notfetch

\* a clear that leaves the entries in place
cache_kept(entries) == entries

\* st.cache_data.clear(): every entry is dropped
cache_cleared(entries) == EmptyDict

\* the button of lines 995-998
ClearCache ==
    /\ cache # EmptyDict
    /\ cache' = cache_cleared(cache)
    /\ cleared' = cleared \cup DOMAIN cache
    /\ callers' = [d \in Callers |-> [callers[d] EXCEPT !.fresh = FALSE]]
    /\ UNCHANGED <<lock, now>>
    /\ UNCHANGED notfetch

----------------------------------------------------------------------------
(* sum_traffic_data, lines 310-335 *)

NumMonths == 12

\* Python truthiness of an optional number: None and 0 are false
Truthy(x) == ~IsNone(x) /\ Val(x) # 0

\* the body of the loop over the entries (lines 317-333) with += replaced by =
add_entry_assigning(acc, entry) ==
    IF IsNone(entry.volume) \/ IsNone(Val(entry.volume).average) THEN acc
    ELSE [acc EXCEPT !.monthly_sums[entry.month] = Val(Val(entry.volume).average)]

\* the body of the loop over the entries, lines 317-333: a TypeError (a null
\* total.volume, a null confidenceInterval) is caught and the loop continues
add_entry(acc, entry) ==
    LET month == entry.month IN
    IF IsNone(entry.volume) THEN acc
    ELSE LET vol    == Val(entry.volume)
             volume == vol.average
         IN  IF ~IsNone(volume)
             THEN LET summed == [acc EXCEPT !.monthly_sums[month] = @ + Val(volume)] IN
                  IF "confidenceInterval" \in DOMAIN vol
                  THEN LET ci == vol.confidenceInterval IN
                       IF IsNone(ci) THEN summed
                       ELSE IF Truthy(Val(ci).lowerBound) /\ Truthy(Val(ci).upperBound)
                            THEN [summed EXCEPT
                                     !.monthly_confidence[month].lower =
                                         @ + Val(Val(ci).lowerBound),
                                     !.monthly_confidence[month].upper =
                                         @ + Val(Val(ci).upperBound)]
                            ELSE summed
                  ELSE summed
             ELSE acc

RECURSIVE add_entries(_, _)
add_entries(acc, point_data) ==
    IF point_data = << >> THEN acc
    ELSE add_entries(add_entry(acc, Head(point_data)), Tail(point_data))

\* the loop of line 315 left after the first point
add_first_point(acc, dict) ==
    IF dict = << >> THEN acc ELSE add_entries(acc, Head(dict).data)

RECURSIVE add_points(_, _)
add_points(acc, dict) ==
    IF dict = << >> THEN acc
    ELSE add_points(add_entries(acc, Head(dict).data), Tail(dict))

sum_traffic_data(dict) ==
    add_points([monthly_sums |-> [m \in 1..NumMonths |-> 0],
                monthly_confidence |->
                    [m \in 1..NumMonths |-> [lower |-> 0, upper |-> 0]]],
               dict)

\* The arguments: what a point reports for a month
MonthVolumes ==
    {None}
    \cup {Some(VolumeNoCI(a)) : a \in {None, Some(100)}}
    \cup {Some(VolumeNullCI(a)) : a \in {None, Some(100)}}
    \cup {Some(VolumeWithCI(a, b[1], b[2])) :
             a \in {None, Some(100)},
             b \in {<<Some(5), Some(9)>>, <<Some(0), Some(9)>>,
                    <<None, Some(9)>>, <<Some(5), None>>}}

\* the months the arguments report on: the first and the last
InputMonths == <<1, NumMonths>>

\* byMonth lists: for each of InputMonths no entry or one, in month order
RECURSIVE MonthLists(_)
MonthLists(k) ==
    IF k = 0 THEN {<< >>}
    ELSE {l \o e : l \in MonthLists(k - 1),
                   e \in {<< >>} \cup {<<Entry(InputMonths[k], v)>> : v \in MonthVolumes}}

PointData == MonthLists(Len(InputMonths)) \ {<< >>}

\* traffic_data_dict, in its iteration order: point "A", point "B" or both
AggInputs ==
    {<<[point_id |-> "A", data |-> a]>> : a \in PointData}
    \cup {<<[point_id |-> "B", data |-> b]>> : b \in PointData}
    \cup {<<[point_id |-> "A", data |-> a], [point_id |-> "B", data |-> b]>> :
             a \in PointData, b \in PointData}

SumTrafficData ==
    /\ IsNone(sums)
    /\ sums' = Some(sum_traffic_data(traffic_data_dict))
    /\ UNCHANGED traffic_data_dict
    /\ UNCHANGED notagg

\* the dict fetch_batch_traffic_data returned, as its items in insertion order
items_of(result, ids) ==
    LET present == SelectSeq(ids, LAMBDA p : p \in DOMAIN result)
    IN  [i \in DOMAIN present |-> [point_id |-> present[i], data |-> result[present[i]]]]

\* process_data_for_years, lines 576-580: the returned dict, when it is not
\* empty, is summed
BatchAggregate ==
    /\ pc = "returned"
    /\ DOMAIN bresult # {}
    /\ pc' = "summed"
    /\ traffic_data_dict' = items_of(bresult, result_keys)
    /\ sums' = Some(sum_traffic_data(items_of(bresult, result_keys)))
    /\ UNCHANGED <<year, point_ids, fetched, weeklyvars, batchvars>>
    /\ UNCHANGED <<retryvars, fetchvars, statvars>>

----------------------------------------------------------------------------
(* Data frames and numbers *)
(* A DataFrame is [columns: the labels in order, col: label -> values].   *)
(* A float is NaN, Inf (division of a positive number by zero) or a       *)
(* finite number; finite quotients are kept exact.                        *)

NaN == [kind |-> "nan"]
Inf == [kind |-> "inf"]

Digit(d) == <<"0", "1", "2", "3", "4", "5", "6", "7", "8", "9">>[d + 1]

\* f"{n}" for a natural number
RECURSIVE str(_)
str(n) == IF n < 10 THEN Digit(n) ELSE str(n \div 10) \o Digit(n % 10)

\* int(label) of a year label
int(label) == CHOOSE y \in (MinYear - YearsBelow)..MaxInputYear : str(y) = label

\* round() of the exact quotient n / d (d > 0): to the nearest integer, a tie
\* to the even one
round_half_even(n, d) ==
    LET q == n \div d
        r == n % d
    IN  IF 2 * r < d THEN q
        ELSE IF 2 * r > d THEN q + 1
        ELSE IF q % 2 = 0 THEN q ELSE q + 1

\* the builtin sum
RECURSIVE sum(_)
sum(q) == IF q = << >> THEN 0 ELSE Head(q) + sum(Tail(q))

\* np.mean of integers, exact
mean(q) == Quotient(sum(q), Len(q))

\* sum of exact quotients
RECURSIVE sum_quotients(_)
sum_quotients(q) ==
    IF q = << >> THEN <<0, 1>>
    ELSE LET a == Head(q)
             b == sum_quotients(Tail(q))
         IN  Quotient(a[1] * b[2] + b[1] * a[2], a[2] * b[2])

\* the values of q in ascending order
RECURSIVE sorted(_)
sorted(q) ==
    IF q = << >> THEN << >>
    ELSE LET i == CHOOSE i \in DOMAIN q : \A j \in DOMAIN q : q[i] <= q[j]
         IN  <<q[i]>> \o sorted([k \in 1..(Len(q) - 1) |-> IF k < i THEN q[k] ELSE q[k + 1]])

\* the labels of q that are not in the set skip, in order
without(q, skip) == SelectSeq(q, LAMBDA c : c \notin skip)

\* q without the repetitions of an element (a dict or a frame keeps the place
\* of the first assignment to a key)
RECURSIVE first_occurrences(_)
first_occurrences(q) ==
    IF q = << >> THEN << >>
    ELSE LET rest == first_occurrences(SubSeq(q, 1, Len(q) - 1))
             last == q[Len(q)]
         IN  IF \E i \in DOMAIN rest : rest[i] = last THEN rest ELSE Append(rest, last)

MONTH_NAMES ==
    <<"Januar", "Februar", "Mars", "April", "Mai", "Juni",
      "Juli", "August", "September", "Oktober", "November", "Desember">>

\* lines 683-691
add_month_names(frame) ==
    IF \E i \in DOMAIN frame.columns : frame.columns[i] = "Month"
    THEN [columns |-> <<"Month", "Month Name">>
                        \o without(frame.columns, {"Month", "Month Name"}),
          col |-> Put(frame.col, "Month Name",
                      [i \in DOMAIN frame.col["Month"] |-> MONTH_NAMES[frame.col["Month"][i]]])]
    ELSE frame

----------------------------------------------------------------------------
(* process_data_for_years, lines 564-598 *)

\* lines 572-582: data maps a year of years to its monthly_sums when
\* fetch_batch_traffic_data returned a non-empty dict for it; sums_of[y] is
\* None when it returned {}
data_of(years, sums_of) ==
    [y \in {y \in Range(years) : ~IsNone(sums_of[y])} |-> Val(sums_of[y])]

\* lines 587-590: a column per year of years that is in data, in the
\* order of years
year_frame(years, data) ==
    LET present == SelectSeq(years, LAMBDA y : y \in DOMAIN data)
        labels  == first_occurrences([i \in DOMAIN present |-> str(present[i])])
    IN  [columns |-> <<"Month">> \o labels,
         col |-> [c \in {"Month"} \cup Range(labels) |->
                     IF c = "Month" THEN [m \in 1..NumMonths |-> m] ELSE data[int(c)]]]

\* lines 592-598; the sums are integers, which round(0).astype('Int64') keeps
process_data_for_years(years, sums_of) ==
    add_month_names(year_frame(years, data_of(years, sums_of)))

----------------------------------------------------------------------------
(* process_data_for_months, lines 600-619 *)

\* line 610: the rows whose Month is in months, in the order of the frame
process_data_for_months(y, months, monthly_sums) ==
    IF IsNone(monthly_sums) THEN None
    ELSE LET kept == SelectSeq([m \in 1..NumMonths |-> m], LAMBDA m : m \in Range(months))
         IN  Some(add_month_names(
                 [columns |-> <<"Month", str(y)>>,
                  col |-> [c \in {"Month", str(y)} |->
                              IF c = "Month" THEN kept
                              ELSE [i \in DOMAIN kept |-> Val(monthly_sums)[kept[i]]]]]))

----------------------------------------------------------------------------
(* sum_weekly_traffic_data, lines 337-343, and process_data_for_weeks,     *)
(* lines 621-643. A dict is the sequence of its items in insertion order.  *)

week_name(n) == "Uke " \o str(n)

\* the values of a dict point_id -> week_average
values(point_data) ==
    LET RECURSIVE list(_)
        list(ks) == IF ks = {} THEN << >>
                    ELSE LET k == CHOOSE k \in ks : TRUE
                         IN  <<point_data[k]>> \o list(ks \ {k})
    IN  list(DOMAIN point_data)

sum_weekly_traffic_data(weekly_data_dict) ==
    [i \in DOMAIN weekly_data_dict |->
        [week_name |-> weekly_data_dict[i].week_name,
         total_volume |-> IF DOMAIN weekly_data_dict[i].point_data # {}
                          THEN sum_quotients(values(weekly_data_dict[i].point_data))
                          ELSE <<0, 1>>]]

\* line 634: the digits of the week name, as an integer
Week_Num(name) == CHOOSE n \in 1..MaxWeekNo : week_name(n) = name

\* line 635: the rows by ascending Week_Num
sort_values(rows) ==
    LET nums == sorted([i \in DOMAIN rows |-> Week_Num(rows[i].week_name)])
    IN  [i \in DOMAIN rows |->
            rows[CHOOSE j \in DOMAIN rows : Week_Num(rows[j].week_name) = nums[i]]]

process_data_for_weeks(weekly_data_dict) ==
    IF weekly_data_dict = << >> THEN None
    ELSE LET weekly_sums == sum_weekly_traffic_data(weekly_data_dict)
             rows == sort_values(weekly_sums)
         IN  Some([columns |-> <<"Week", "Volume">>,
                   col |-> [c \in {"Week", "Volume"} |->
                               IF c = "Week" THEN [i \in DOMAIN rows |-> rows[i].week_name]
                               ELSE [i \in DOMAIN rows |->
                                        round_half_even(rows[i].total_volume[1],
                                                        rows[i].total_volume[2])]]])

----------------------------------------------------------------------------
(* calculate_growth_rates, lines 363-376 *)

NegInf == [kind |-> "-inf"]

\* line 366
growth_year_columns(frame) == without(frame.columns, {"Month", "Month Name", "Week", "Volume"})

\* line 374 for one row: ((curr - prev) / prev * 100).round(1), in tenths.
\* The division is float division of a nullable-integer column: x / 0 is
\* inf, -inf or (for 0 / 0) NaN, and no exception
growth(curr, prev) ==
    IF prev = 0
    THEN IF curr - prev > 0 THEN Inf ELSE IF curr - prev < 0 THEN NegInf ELSE NaN
    ELSE [kind |-> "num", tenths |-> round_half_even((curr - prev) * 1000, prev)]

\* line 372
growth_col(prev_year, curr_year) == "Vekst " \o prev_year \o "-" \o curr_year \o " (%)"

\* lines 369-374 for i = k, k+1, ...
RECURSIVE add_growth_columns(_, _, _, _)
add_growth_columns(grown, frame, year_columns, k) ==
    IF k > Len(year_columns) THEN grown
    ELSE LET prev_year == year_columns[k - 1]
             curr_year == year_columns[k]
             name      == growth_col(prev_year, curr_year)
             column    == [i \in DOMAIN frame.col[curr_year] |->
                              growth(frame.col[curr_year][i], frame.col[prev_year][i])]
         IN  add_growth_columns(
                 [columns |-> IF \E i \in DOMAIN grown.columns :
                                    grown.columns[i] = name
                              THEN grown.columns
                              ELSE Append(grown.columns, name),
                  col |-> Put(grown.col, name, column)],
                 frame, year_columns, k + 1)

calculate_growth_rates(frame) ==
    LET year_columns == growth_year_columns(frame) IN
    IF Len(year_columns) >= 2 THEN add_growth_columns(frame, frame, year_columns, 2) ELSE frame

----------------------------------------------------------------------------
(* calculate_seasonal_patterns, lines 378-397 *)

\* lines 391-394 with the winter of line 391 taken as Jan, Feb, Mar
seasons_from_january(yearly_data) ==
    [vinter_snitt |-> mean(SubSeq(yearly_data, 1, 3)),
     vaar_snitt   |-> mean(SubSeq(yearly_data, 4, 6)),
     sommer_snitt |-> mean(SubSeq(yearly_data, 7, 9)),
     hoest_snitt  |-> mean(SubSeq(yearly_data, 10, 12))]

\* lines 390-395 (0-based indices 11, 0, 1; 2:5; 5:8; 8:11)
seasons(yearly_data) ==
    [vinter_snitt |-> mean(<<yearly_data[12], yearly_data[1], yearly_data[2]>>),
     vaar_snitt   |-> mean(SubSeq(yearly_data, 3, 5)),
     sommer_snitt |-> mean(SubSeq(yearly_data, 6, 8)),
     hoest_snitt  |-> mean(SubSeq(yearly_data, 9, 11))]

calculate_seasonal_patterns(frame) ==
    IF ~\E i \in DOMAIN frame.columns : frame.columns[i] = "Month" THEN EmptyDict
    ELSE LET year_columns == without(frame.columns, {"Month", "Month Name"})
         IN  [y \in {y \in Range(year_columns) : Len(frame.col[y]) = 12} |->
                 seasons(frame.col[y])]

----------------------------------------------------------------------------
(* calculate_additional_statistics, lines 645-681 *)

\* n * sum(x^2) - sum(x)^2 = n * (n - 1) * variance
variance_numerator(q) ==
    Len(q) * sum([i \in DOMAIN q |-> q[i] * q[i]]) - sum(q) * sum(q)

\* lines 658, 674 with a guard that reports 0 for a zero mean
variation_zero_guarded(q) ==
    IF Len(q) < 2 THEN NaN
    ELSE IF sum(q) = 0 THEN [kind |-> "num", squared |-> <<0, 1>>]
    ELSE [kind |-> "num",
          squared |-> Quotient(variance_numerator(q) * Len(q),
                               (Len(q) - 1) * sum(q) * sum(q))]

\* lines 658, 674: std() / mean() * 100 of non-negative values. std() (N - 1
\* denominator) of one value is NaN; the division is float division, so 0 / 0
\* is NaN and x / 0 is inf. A finite result is kept as the exact square of
\* std / mean (its rounding to two decimals is finite too)
variation(q) ==
    IF Len(q) < 2 THEN NaN
    ELSE IF sum(q) = 0
         THEN IF variance_numerator(q) = 0 THEN NaN ELSE Inf
         ELSE [kind |-> "num",
               squared |-> Quotient(variance_numerator(q) * Len(q),
                                    (Len(q) - 1) * sum(q) * sum(q))]

\* Series.quantile(num / den), linear interpolation
quantile(q, num, den) ==
    LET s  == sorted(q)
        lo == ((Len(q) - 1) * num) \div den
        r  == ((Len(q) - 1) * num) % den
    IN  IF r = 0 THEN <<s[lo + 1], 1>>
        ELSE Quotient(s[lo + 1] * den + r * (s[lo + 2] - s[lo + 1]), den)

\* idxmax / idxmin: the first row with the value
idx_of(q, v) == CHOOSE i \in DOMAIN q : q[i] = v /\ \A j \in 1..(i - 1) : q[j] # v

maximum(q) == CHOOSE v \in Range(q) : \A w \in Range(q) : w <= v
minimum(q) == CHOOSE v \in Range(q) : \A w \in Range(q) : v <= w

\* the entries of lines 652-662 and 668-679 for one column, labelled by the
\* column `labels`
describe_column(q, labels) ==
    [peak_label   |-> labels[idx_of(q, maximum(q))],
     peak         |-> maximum(q),
     lowest_label |-> labels[idx_of(q, minimum(q))],
     lowest       |-> minimum(q),
     range        |-> maximum(q) - minimum(q),
     variation    |-> variation(q),
     median       |-> quantile(q, 1, 2),
     quartile_1   |-> quantile(q, 1, 4),
     quartile_3   |-> quantile(q, 3, 4)]

calculate_additional_statistics(frame) ==
    IF \E i \in DOMAIN frame.columns : frame.columns[i] = "Volume"
    THEN IF Len(frame.col["Volume"]) > 0
         THEN [k \in {"Ukesdata"} |-> describe_column(frame.col["Volume"], frame.col["Week"])]
         ELSE EmptyDict
    ELSE LET year_columns == without(frame.columns, {"Month", "Month Name"})
         IN  [y \in {y \in Range(year_columns) : Len(frame.col[y]) > 0} |->
                 describe_column(frame.col[y], frame.col["Month Name"])]

----------------------------------------------------------------------------
(* analyze_toll_exemptions, lines 723-748, over FERDE_DATA_2024, lines 134-159 *)

TollYear == 2024

FERDE_DATA_2024 ==
    [p \in {"Hundvågtunnelen", "Ryfylketunnelen"} |->
        IF p = "Hundvågtunnelen"
        THEN [total_passeringer |->
                  <<184679, 182709, 199378, 212489, 236726, 240047,
                    233855, 253300, 226734, 217541, 200790, 189330>>,
              fritakspasseringer |->
                  <<55214, 56004, 63135, 66046, 75436, 75886,
                    75617, 79373, 69799, 67367, 61442, 60346>>]
        ELSE [total_passeringer |->
                  <<131708, 133245, 153886, 158835, 186254, 189346,
                    196522, 202069, 172856, 159849, 145479, 136503>>,
              fritakspasseringer |->
                  <<5360, 4348, 3833, 5604, 4915, 5374,
                    4602, 6224, 5510, 6480, 5385, 3896>>]]

\* the result for a pair without data, were it a record of zeros
zero_exemptions(point, y) ==
    Some([passages |-> [m \in 1..NumMonths |-> 0],
          exemptions |-> [m \in 1..NumMonths |-> 0],
          rate |-> [m \in 1..NumMonths |-> 0],
          paying |-> [m \in 1..NumMonths |-> 0],
          totals |-> [total_passages |-> 0, total_exemptions |-> 0,
                      total_paying |-> 0, average_exemption_rate |-> <<0, 1>>]])

\* what is returned for a pair without data, line 748
toll_absent(point, y) == None

\* the rate of line 734-736 is in hundredths of a percent
analyze_toll_exemptions(point, y) ==
    IF y = TollYear /\ point \in DOMAIN FERDE_DATA_2024
    THEN LET ferde_data == FERDE_DATA_2024[point]
             passages   == ferde_data.total_passeringer
             exemptions == ferde_data.fritakspasseringer
             rate   == [m \in 1..NumMonths |->
                           round_half_even(exemptions[m] * 10000, passages[m])]
             paying == [m \in 1..NumMonths |-> passages[m] - exemptions[m]]
         IN  Some([passages |-> passages, exemptions |-> exemptions,
                   rate |-> rate, paying |-> paying,
                   totals |-> [total_passages |-> sum(passages),
                               total_exemptions |-> sum(exemptions),
                               total_paying |-> sum(paying),
                               average_exemption_rate |-> mean(rate)]])
    ELSE toll_absent(point, y)

\* the toll tab of main, lines 1114-1169: what is shown
toll_tab(mode, years, point) ==
    IF mode = "Sammenlign år"
       /\ TollYear \in Range(years)
       /\ point \in {"Ryfylketunnelen", "Hundvågtunnelen"}
    THEN LET analysis == analyze_toll_exemptions(point, TollYear) IN
         IF ~IsNone(analysis)
         THEN [shown |-> "metrics", totals |-> Some(Val(analysis).totals)]
         ELSE [shown |-> "info: only for the two tunnels in 2024", totals |-> None]
    ELSE [shown |-> "info: needs 2024 and a tunnel", totals |-> None]

----------------------------------------------------------------------------
(* main, lines 1002-1169: the frame of the comparison and the tabs *)

MaxYearList == 2

StatYears == (TollYear - 1)..(TollYear + 1)

\* year_list as parsed from the text input (line 906): any years in any
\* order, repetitions included
YearLists == UNION {[1..n -> StatYears] : n \in 1..MaxYearList}

\* monthly_sums of a year
YearSeries ==
    {[m \in 1..NumMonths |-> 0],
     [m \in 1..NumMonths |-> 100],
     [m \in 1..NumMonths |-> 150],
     [m \in 1..NumMonths |-> 10 * (((m - 1) % 3) + 1)],
     [m \in 1..NumMonths |-> IF m = 1 THEN 0 ELSE 10 * m]}

\* the months picked in the multiselect of line 940
MonthSelections == {[m \in 1..NumMonths |-> m], <<1, 2, 3>>, <<NumMonths>>}

\* what fetch_weekly_traffic_data returned: weeks in the order requested
WeekOrders == {<< >>, <<1>>, <<1, 2>>, <<2, 1>>, <<2, 10>>, <<10, 2>>}

WeekPointData ==
    {[p \in {"A"} |-> <<0, 1>>],
     [p \in {"A"} |-> <<7, 1>>],
     [p \in {"A", "B"} |-> IF p = "A" THEN <<7, 1>> ELSE <<5, 2>>]}

WeeklyDicts ==
    UNION {{[i \in DOMAIN o |-> [week_name |-> week_name(o[i]), point_data |-> pd[i]]] :
               pd \in [DOMAIN o -> WeekPointData]} : o \in WeekOrders}

TabPoints == {"Ryfylketunnelen", "Hundvågtunnelen", "Bybrua"}

\* line 1006
ProcessDataForYears ==
    /\ comparison_mode = "none"
    /\ IsNone(exemption_analysis)
    /\ \E yl \in YearLists, sums_of \in [StatYears -> {None} \cup {Some(q) : q \in YearSeries}] :
          /\ year_list' = yl
          /\ df' = Some(Some(process_data_for_years(yl, sums_of)))
    /\ comparison_mode' = "Sammenlign år"
    /\ UNCHANGED <<seasonal_patterns, growth_df, advanced_stats, tab4, exemption_analysis>>
    /\ UNCHANGED notstat

\* line 1010
ProcessDataForMonths ==
    /\ comparison_mode = "none"
    /\ IsNone(exemption_analysis)
    /\ \E y \in StatYears, months \in MonthSelections,
          monthly_sums \in {None} \cup {Some(q) : q \in YearSeries} :
          /\ year_list' = <<y>>
          /\ df' = Some(process_data_for_months(y, months, monthly_sums))
    /\ comparison_mode' = "Sammenlign måneder"
    /\ UNCHANGED <<seasonal_patterns, growth_df, advanced_stats, tab4, exemption_analysis>>
    /\ UNCHANGED notstat

\* line 1014
ProcessDataForWeeks ==
    /\ comparison_mode = "none"
    /\ IsNone(exemption_analysis)
    /\ \E weekly_data_dict \in WeeklyDicts :
          df' = Some(process_data_for_weeks(weekly_data_dict))
    /\ comparison_mode' = "Sammenlign uker"
    /\ UNCHANGED <<year_list, seasonal_patterns, growth_df, advanced_stats, tab4,
                   exemption_analysis>>
    /\ UNCHANGED notstat

\* DataFrame.empty: an axis of the frame has length 0
empty(frame) ==
    \/ frame.columns = << >>
    \/ \A c \in Range(frame.columns) : Len(frame.col[c]) = 0

\* lines 1017-1019: without a frame, or with an empty one, the run stops
HasFrame == ~IsNone(df) /\ ~IsNone(Val(df)) /\ ~empty(Val(Val(df)))

\* line 1034
CalculateSeasonalPatterns ==
    /\ HasFrame
    /\ IsNone(seasonal_patterns)
    /\ seasonal_patterns' = Some(calculate_seasonal_patterns(Val(Val(df))))
    /\ UNCHANGED <<comparison_mode, year_list, df, growth_df, advanced_stats, tab4,
                   exemption_analysis>>
    /\ UNCHANGED notstat

\* line 1044
CalculateGrowthRates ==
    /\ HasFrame
    /\ ~IsNone(seasonal_patterns)
    /\ IsNone(growth_df)
    /\ growth_df' = Some(calculate_growth_rates(Val(Val(df))))
    /\ UNCHANGED <<comparison_mode, year_list, df, seasonal_patterns, advanced_stats,
                   tab4, exemption_analysis>>
    /\ UNCHANGED notstat

\* line 1108
CalculateAdditionalStatistics ==
    /\ HasFrame
    /\ ~IsNone(growth_df)
    /\ IsNone(advanced_stats)
    /\ advanced_stats' = Some(calculate_additional_statistics(Val(Val(df))))
    /\ UNCHANGED <<comparison_mode, year_list, df, seasonal_patterns, growth_df, tab4,
                   exemption_analysis>>
    /\ UNCHANGED notstat

\* lines 1111-1169, for the point chosen in the sidebar
TollTab ==
    /\ HasFrame
    /\ ~IsNone(advanced_stats)
    /\ IsNone(tab4)
    /\ \E point \in TabPoints :
          tab4' = Some([point |-> point,
                        view |-> toll_tab(comparison_mode, year_list, point)])
    /\ UNCHANGED <<comparison_mode, year_list, df, seasonal_patterns, growth_df,
                   advanced_stats, exemption_analysis>>
    /\ UNCHANGED notstat

\* analyze_toll_exemptions on its own, for every point and year
AnalyzeTollExemptions ==
    /\ comparison_mode = "none"
    /\ IsNone(exemption_analysis)
    /\ \E point \in TabPoints, y \in StatYears :
          exemption_analysis' = Some([point |-> point, year |-> y,
                                      returned |-> analyze_toll_exemptions(point, y)])
    /\ UNCHANGED <<comparison_mode, year_list, df, seasonal_patterns, growth_df,
                   advanced_stats, tab4>>
    /\ UNCHANGED notstat

----------------------------------------------------------------------------
ReqInit ==
    /\ pc = "idle"
    /\ year = MinYear
    /\ point_ids = << >>
    /\ week_numbers = << >>
    /\ wi = 1
    /\ week_num = 0
    /\ pj = 1
    /\ week_start = 0
    /\ week_end = 0
    /\ week_data = EmptyDict
    /\ wresult = EmptyDict
    /\ futures = << >>
    /\ bi = 1
    /\ bresult = EmptyDict
    /\ result_keys = << >>
    /\ first_done = 0
    /\ fetched = {}
    /\ contributed = EmptyDict

RetryIdle ==
    /\ net = << >>
    /\ inv = InvInit

FetchInit ==
    /\ cache = EmptyDict
    /\ lock = [q \in LockKeys |-> "free"]
    /\ now = 0
    /\ callers = [c \in Callers |-> CallerInit]
    /\ cleared = {}

AggIdle ==
    /\ traffic_data_dict = << >>
    /\ sums = None

StatIdle ==
    /\ comparison_mode = "none"
    /\ year_list = << >>
    /\ df = None
    /\ seasonal_patterns = None
    /\ growth_df = None
    /\ advanced_stats = None
    /\ tab4 = None
    /\ exemption_analysis = None

\* a request: one call of fetch_weekly_traffic_data or fetch_batch_traffic_data
Init == ReqInit /\ RetryIdle /\ FetchInit /\ AggIdle /\ StatIdle

Next ==
    \/ WeeklyCall
    \/ WeekBegin
    \/ WeekPoint
    \/ WeekEnd
    \/ WeeklyReturn
    \/ BatchCall
    \/ BatchSubmit
    \/ WorkerStart
    \/ WorkerFinish
    \/ BatchCollect
    \/ BatchReturn
    \/ BatchAggregate

Spec == Init /\ [][Next]_vars

\* one invocation of fetch_data against every plan of the network
InitRetry ==
    ReqInit /\ FetchInit /\ AggIdle /\ StatIdle /\ net \in NetPlans /\ inv = InvInit

NextRetry == FetchAttempt

SpecRetry == InitRetry /\ [][NextRetry]_vars

\* the memoized fetch_data called from two threads
NextFetch ==
    \/ CachedCall
    \/ ComputeLock
    \/ Post
    \/ BatchBody
    \/ Tick
    \/ ClearCache

SpecFetch == Init /\ [][NextFetch]_vars

\* sum_traffic_data applied to every argument of AggInputs
InitAgg ==
    /\ ReqInit /\ RetryIdle /\ FetchInit /\ StatIdle
    /\ traffic_data_dict \in AggInputs /\ sums = None

NextAgg == SumTrafficData

SpecAgg == InitAgg /\ [][NextAgg]_vars

\* "Analyser data" in one of the three comparison modes, then the tabs; and
\* analyze_toll_exemptions applied to every point and year
NextStats ==
    \/ ProcessDataForYears
    \/ ProcessDataForMonths
    \/ ProcessDataForWeeks
    \/ CalculateSeasonalPatterns
    \/ CalculateGrowthRates
    \/ CalculateAdditionalStatistics
    \/ TollTab
    \/ AnalyzeTollExemptions

SpecStats == Init /\ [][NextStats]_vars

----------------------------------------------------------------------------
(* The week resolver: claims C1-C3 *)

\* the earliest Monday on or after January 1 of year y
first_monday(y) ==
    CHOOSE d \in datetime(y, 1, 1)..(datetime(y, 1, 1) + 6) : weekday(d) = 0

\* the date a query names, read back from its printed fields
parse_date(f) == datetime(f[1], f[2], f[3])

\* C1: for every year >= 2019 and week number n the weekly fetch computes
\* week_start = first_monday(year) + (n-1) weeks, first_monday being the
\* earliest Monday on or after January 1 (January 1 itself when it is a
\* Monday, as in 2024); week 1 of 2019 starts on 2019-01-07.
C1_WeekStartRule ==
    (year >= MinYear /\ week_num # 0) =>
        /\ week_start = first_monday(year) + 7 * (week_num - 1)
        /\ (weekday(datetime(year, 1, 1)) = 0 /\ week_num = 1
               => week_start = datetime(year, 1, 1))
        /\ (year = 2019 /\ week_num = 1 => strftime(week_start) = <<2019, 1, 7>>)

C1_Week1Of2019 ==
    /\ pc = "points"
    /\ year = 2019
    /\ week_num = 1
    /\ weekday(datetime(2019, 1, 1)) = 1
    /\ strftime(week_start) = <<2019, 1, 7>>

\* C2 (as claimed): a week whose week_start lies in the requested year while
\* week_start + 6 days falls in the next year is not omitted: once the loop
\* is past it, it has been queried over [week_start, December 31].
C2_BoundaryWeekQueried ==
    \A k \in 1..Len(week_numbers) :
        LET ws == week_start_of(year, week_numbers[k]) IN
        (/\ year >= MinYear
         /\ k < wi
         /\ YearOf(ws) = year
         /\ YearOf(ws + 6) # year)
        => weekly_query(point_ids[1], ws, datetime(year, 12, 31)) \in fetched

\* C3: every week range the weekly fetch queries starts on a Monday and ends
\* six days later, unless its end is December 31 of the requested year.
C3_QueriedRangesAreWeeks ==
    \A q \in fetched :
        q.template = "weekly" =>
            /\ weekday(parse_date(q.args[1])) = 0
            /\ \/ parse_date(q.args[2]) = parse_date(q.args[1]) + 6
               \/ q.args[2] = <<year, 12, 31>>

C3_SomeWeekQueried ==
    /\ pc = "returned"
    /\ \E q \in fetched :
          /\ q.template = "weekly"
          /\ q.args[1][1] = year
          /\ parse_date(q.args[2]) = parse_date(q.args[1]) + 6

----------------------------------------------------------------------------
(* The year guard and the per-sensor failures: claims C6, C9 *)

\* C6: a request whose year is < 2019 is rejected before any fetch:
\* fetch_batch_traffic_data and fetch_weekly_traffic_data return an empty
\* result, and fetch_data is never called (no future is even submitted).
C6_EarlyYearRejected ==
    (pc # "idle" /\ year < 2019) =>
        /\ pc = "returned"
        /\ fetched = {}
        /\ futures = << >>
        /\ DOMAIN bresult = {}
        /\ DOMAIN wresult = {}

C6_BatchFor2018Returned ==
    /\ pc = "returned"
    /\ year = 2018
    /\ Len(point_ids) > 1
    /\ week_numbers = << >>

\* C9 (as claimed): one sensor's failure never discards what the other
\* sensors contributed.  Weekly: every point whose week_average was computed
\* for a week is in the result's entry of that week once the loop is past
\* the week.  Monthly: every collected future whose response holds monthly
\* data is in the result.
C9_ContributionsKept ==
    /\ \A w \in DOMAIN contributed :
          pc \in {"week", "returned"} =>
              /\ w \in DOMAIN wresult
              /\ contributed[w] \subseteq DOMAIN wresult[w]
    /\ \A i \in DOMAIN futures :
          (/\ i < bi
           /\ futures[i].state = "finished"
           /\ ~read_month(futures[i].ret).raised
           /\ ~IsNone(read_month(futures[i].ret).monthly_data))
          => point_ids[i] \in DOMAIN bresult

----------------------------------------------------------------------------
(* fetch_data: claims C4, C5, C10 *)

AllFailed(n) == \A k \in 1..n : net[k].kind \in {"timeout", "reqerr"}

\* C4: one invocation of fetch_data issues at most 3 POSTs, stops at the
\* first attempt that returns a response, and when all 3 attempts fail by
\* transport error or timeout it returns a failure value (None).
C4_BoundedAttempts ==
    /\ inv.posts <= 3
    /\ inv.status = "running" => inv.posts < 3
    /\ \A k \in 1..inv.posts :
          net[k].kind = "response" => (inv.posts = k /\ inv.status = "returned")
    /\ (inv.posts = 3 /\ AllFailed(3)) =>
          (inv.status = "returned" /\ IsNone(inv.ret))

C4_ThreeFailuresReturned ==
    /\ inv.posts = 3
    /\ net[1] = Timeout
    /\ net[2] = ReqError
    /\ net[3] = Timeout
    /\ inv.status = "returned"
    /\ IsNone(inv.ret)

\* C10: a response that carries a GraphQL errors list is not retried (it is
\* the last POST of the invocation) and is surfaced as a failure of its
\* own: None is returned with the notice "GraphQL feil: <first message>",
\* which no transport failure or timeout produces.
C10_GraphQLErrorsNotRetried ==
    /\ \A k \in 1..inv.posts :
          (net[k].kind = "response" /\ "errors" \in DOMAIN Val(net[k].body)) =>
              /\ inv.posts = k
              /\ inv.status = "returned"
              /\ IsNone(inv.ret)
              /\ inv.notice = "graphql"
              /\ inv.msg = Some(Head(Val(net[k].body).errors).message)
    /\ (inv.status = "returned" /\ AllFailed(inv.posts)) =>
          (inv.notice \in {"timeout", "request"} /\ IsNone(inv.msg))

C10_ErrorsAfterATimeout ==
    /\ net[1] = Timeout
    /\ net[2] = Response(GraphQLError(<<"m2", "m1">>))
    /\ inv.status = "returned"
    /\ inv.posts = 2
    /\ inv.msg = Some("m2")

\* two completed fetches of the same query in one window of the cache (no
\* clear and no expiry since they were issued), one of which ran the body
SameWindow(c, d) ==
    /\ c # d
    /\ callers[c].pc = "done" /\ callers[d].pc = "done"
    /\ callers[c].query = callers[d].query
    /\ callers[c].fresh /\ callers[d].fresh

\* C5 (as claimed): two fetches of an identical query within the TTL window
\* and without a cache clear between them result in exactly one network
\* call.
C5_ExactlyOneNetworkCall ==
    \A c, d \in Callers :
        (SameWindow(c, d) /\ ~callers[c].hit /\ callers[c].query \in FetchQueries) =>
            callers[c].out.posts + callers[d].out.posts = 1

\* C5 (amended): such two fetches run the body of fetch_data exactly once;
\* the later or concurrent one returns the memoized value and issues no
\* network call, so that every network call (one, or up to 3 when attempts
\* fail and are retried) is the first fetch's.
C5_BodyRunsOnce ==
    \A c, d \in Callers :
        (SameWindow(c, d) /\ ~callers[c].hit /\ callers[c].query \in FetchQueries) =>
            /\ callers[d].hit
            /\ callers[d].out.posts = 0
            /\ callers[d].out.ret = callers[c].out.ret
            /\ callers[c].out.posts \in 1..3

C5_SecondFetchServedFromCache ==
    /\ SameWindow("t1", "t2")
    /\ callers["t1"].query = "q1"
    /\ ~callers["t1"].hit
    /\ callers["t1"].out.posts = 2
    /\ callers["t1"].out.ret = Some(NoEdgesBody)
    /\ callers["t2"].hit
    /\ now = TickSeconds
    /\ cache[callers["t1"].query].stamp = 0

----------------------------------------------------------------------------
(* sum_traffic_data: claims C7, C8 *)

RECURSIVE SumSeq(_)
SumSeq(q) == IF q = << >> THEN 0 ELSE Head(q) + SumSeq(Tail(q))

\* the entries of the argument, of all points, for month m
EntriesOf(m) ==
    LET all[i \in 0..Len(traffic_data_dict)] ==
            IF i = 0 THEN << >> ELSE all[i - 1] \o traffic_data_dict[i].data
    IN  SelectSeq(all[Len(traffic_data_dict)], LAMBDA e : e.month = m)

HasAverage(e) == ~IsNone(e.volume) /\ ~IsNone(Val(e.volume).average)

HasBothBounds(e) ==
    /\ ~IsNone(e.volume)
    /\ "confidenceInterval" \in DOMAIN Val(e.volume)
    /\ ~IsNone(Val(e.volume).confidenceInterval)
    /\ ~IsNone(Val(Val(e.volume).confidenceInterval).lowerBound)
    /\ ~IsNone(Val(Val(e.volume).confidenceInterval).upperBound)

Map(q, F(_)) == [i \in DOMAIN q |-> F(q[i])]

AverageOf(e) == Val(Val(e.volume).average)
LowerOf(e) == Val(Val(Val(e.volume).confidenceInterval).lowerBound)
UpperOf(e) == Val(Val(Val(e.volume).confidenceInterval).upperBound)

\* C7: the aggregation returns exactly 12 monthly totals; the total of a
\* month is the sum of average_volume over the sensors that reported a
\* non-null value for it, and 0 (not null) when there is none.
C7_MonthlyTotals ==
    ~IsNone(sums) =>
        /\ Len(Val(sums).monthly_sums) = 12
        /\ \A m \in 1..12 :
              Val(sums).monthly_sums[m] =
                  SumSeq(Map(SelectSeq(EntriesOf(m), HasAverage), AverageOf))

C7_NullBesideAValue ==
    /\ ~IsNone(sums)
    /\ Len(traffic_data_dict) = 2
    /\ traffic_data_dict[1].data = <<Entry(1, Some(VolumeNoCI(Some(100))))>>
    /\ traffic_data_dict[2].data = <<Entry(1, Some(VolumeNoCI(None)))>>
    /\ Val(sums).monthly_sums[1] = 100
    /\ Val(sums).monthly_sums[2] = 0

\* C8 (as claimed): for every sensor/month whose lower and upper bound are
\* both present and non-null (a bound of 0 included) the lower bound is
\* added to the month's lower sum and the upper bound to its upper sum; a
\* sensor/month with a bound missing or null adds to neither.
C8_BoundsSummed ==
    ~IsNone(sums) =>
        \A m \in 1..12 :
            /\ Val(sums).monthly_confidence[m].lower =
                  SumSeq(Map(SelectSeq(EntriesOf(m), HasBothBounds), LowerOf))
            /\ Val(sums).monthly_confidence[m].upper =
                  SumSeq(Map(SelectSeq(EntriesOf(m), HasBothBounds), UpperOf))

----------------------------------------------------------------------------
(* The statistics: claims C11-C15, C19 *)

TheFrame == Val(Val(df))

\* the year labels among the columns of the frame, in column order
YearLabels(frame) == without(frame.columns, {"Month", "Month Name", "Week", "Volume"})

IsAscending(q) == \A i, j \in DOMAIN q : i < j => q[i] < q[j]

\* C11 (as claimed): in every growth column, a row whose previous-year value
\* is 0 holds the undefined marker (not-a-number): no number, no infinity
\* and no exception.
C11_ZeroPreviousIsUndefined ==
    ~IsNone(growth_df) =>
        \A p, c \in Range(YearLabels(TheFrame)) :
            growth_col(p, c) \in DOMAIN Val(growth_df).col =>
                \A i \in DOMAIN TheFrame.col[p] :
                    TheFrame.col[p][i] = 0 =>
                        Val(growth_df).col[growth_col(p, c)][i] = NaN

\* C12 (as claimed): the growth columns are those of the pairs of years that
\* are adjacent in ascending numeric order, whatever the order of year_list,
\* and a row with previous 100 and current 150 holds 50.0.
C12_AdjacentAscendingYears ==
    ~IsNone(growth_df) =>
        LET ys == sorted([i \in DOMAIN YearLabels(TheFrame) |->
                             int(YearLabels(TheFrame)[i])])
        IN  /\ \A p, c \in Range(YearLabels(TheFrame)) :
                  growth_col(p, c) \in DOMAIN Val(growth_df).col <=>
                      \E k \in 1..(Len(ys) - 1) : int(p) = ys[k] /\ int(c) = ys[k + 1]
            /\ \A p, c \in Range(YearLabels(TheFrame)) :
                  growth_col(p, c) \in DOMAIN Val(growth_df).col =>
                      \A i \in DOMAIN TheFrame.col[p] :
                          TheFrame.col[p][i] = 100 /\ TheFrame.col[c][i] = 150 =>
                              Val(growth_df).col[growth_col(p, c)][i] =
                                  [kind |-> "num", tenths |-> 500]

\* the column a key of the statistics describes
DescribedColumn(k) == IF k = "Ukesdata" THEN TheFrame.col["Volume"] ELSE TheFrame.col[k]

Third(a, b, c) == Quotient(a + b + c, 3)

\* C14: the patterns have an entry exactly for the year columns with 12
\* values; winter is the mean of Dec, Jan, Feb, spring of Mar, Apr, May,
\* summer of Jun, Jul, Aug, autumn of Sep, Oct, Nov; and a series of four
\* equal triplets has four equal means.
C14_SeasonalMeans ==
    ~IsNone(seasonal_patterns) =>
        LET patterns == Val(seasonal_patterns)
            labels == IF comparison_mode = "Sammenlign uker" THEN {}
                      ELSE Range(YearLabels(TheFrame))
        IN  /\ DOMAIN patterns = {y \in labels : Len(TheFrame.col[y]) = 12}
            /\ \A y \in DOMAIN patterns :
                  LET v == TheFrame.col[y] IN
                  /\ patterns[y].vinter_snitt = Third(v[12], v[1], v[2])
                  /\ patterns[y].vaar_snitt = Third(v[3], v[4], v[5])
                  /\ patterns[y].sommer_snitt = Third(v[6], v[7], v[8])
                  /\ patterns[y].hoest_snitt = Third(v[9], v[10], v[11])
                  /\ (\A m \in 1..9 : v[m] = v[m + 3]) =>
                        /\ patterns[y].vinter_snitt = patterns[y].vaar_snitt
                        /\ patterns[y].vaar_snitt = patterns[y].sommer_snitt
                        /\ patterns[y].sommer_snitt = patterns[y].hoest_snitt

C14_FourEqualTriplets ==
    /\ ~IsNone(seasonal_patterns)
    /\ \E y \in DOMAIN Val(seasonal_patterns) :
          /\ TheFrame.col[y] = <<10, 20, 30, 10, 20, 30, 10, 20, 30, 10, 20, 30>>
          /\ Val(seasonal_patterns)[y].vinter_snitt = <<20, 1>>
          /\ Val(seasonal_patterns)[y].hoest_snitt = <<20, 1>>

HasTollEntry(point, y) == y = 2024 /\ point \in {"Hundvågtunnelen", "Ryfylketunnelen"}

\* C15: for a (point, year) without an entry in the toll data,
\* analyze_toll_exemptions returns None (no record, no error), and the toll
\* tab then shows a notice and no totals.
C15_AbsentIsNone ==
    /\ ~IsNone(exemption_analysis) =>
          LET call == Val(exemption_analysis) IN
          ~HasTollEntry(call.point, call.year) => IsNone(call.returned)
    /\ ~IsNone(tab4) =>
          (~(comparison_mode = "Sammenlign år"
             /\ \E i \in DOMAIN year_list : HasTollEntry(Val(tab4).point, year_list[i]))
              => /\ Val(tab4).view.shown # "metrics"
                 /\ IsNone(Val(tab4).view.totals))

C15_BybruaIn2024 ==
    /\ ~IsNone(exemption_analysis)
    /\ Val(exemption_analysis).point = "Bybrua"
    /\ Val(exemption_analysis).year = 2024
    /\ IsNone(Val(exemption_analysis).returned)

\* C19 (as claimed): the year columns of the multi-year frame are in
\* ascending numeric order of their labels and the rows of the weekly frame
\* are in ascending order of their week numbers.
C19_AscendingLabels ==
    HasFrame =>
        /\ comparison_mode = "Sammenlign år" =>
              IsAscending([i \in DOMAIN YearLabels(TheFrame) |->
                              int(YearLabels(TheFrame)[i])])
        /\ comparison_mode = "Sammenlign uker" =>
              IsAscending([i \in DOMAIN TheFrame.col["Week"] |->
                              Week_Num(TheFrame.col["Week"][i])])

----------------------------------------------------------------------------
(* The weekly result, the sensor order, the cache clear, the join: claims  *)
(* C16, C17, C18, C20                                                      *)

\* C16 (as claimed): the weekly result has an entry only for weeks with a
\* valid sensor reading, made of the sensors that had valid days; a sensor
\* without valid days is left out of the week's entry and does not remove
\* the week: once the loop is past a week for which some sensor had a valid
\* day, the week has its entry, with exactly those sensors.
C16_WeeksOfValidReadings ==
    /\ \A w \in DOMAIN wresult :
          /\ DOMAIN wresult[w] # {}
          /\ w \in DOMAIN contributed
          /\ DOMAIN wresult[w] \subseteq contributed[w]
    /\ pc \in {"week", "returned"} =>
          \A w \in DOMAIN contributed :
              /\ contributed[w] # {}
              /\ w \in DOMAIN wresult
              /\ DOMAIN wresult[w] = contributed[w]
              /\ sum_weekly_traffic_data(
                     <<[week_name |-> week_name(w), point_data |-> wresult[w]]>>)
                   = <<[week_name |-> week_name(w),
                        total_volume |-> sum_quotients(values(wresult[w]))]>>

\* the orders in which the items of a dict can be iterated
Permuted(dict) ==
    {[i \in DOMAIN dict |-> dict[f[i]]] :
        f \in {g \in [DOMAIN dict -> DOMAIN dict] :
                  \A i, j \in DOMAIN dict : i # j => g[i] # g[j]}}

\* C17: whatever the order in which the sensors of the mapping are
\* iterated, sum_traffic_data yields the same monthly sums.
C17_SensorOrder ==
    ~IsNone(sums) =>
        \A d \in Permuted(traffic_data_dict) :
            sum_traffic_data(d).monthly_sums = Val(sums).monthly_sums

C17_TwoSensorsDiffer ==
    /\ ~IsNone(sums)
    /\ Len(traffic_data_dict) = 2
    /\ traffic_data_dict[1].data = <<Entry(1, Some(VolumeNoCI(Some(100))))>>
    /\ traffic_data_dict[2].data = <<Entry(1, Some(VolumeNoCI(Some(100)))),
                                     Entry(12, Some(VolumeNoCI(Some(100))))>>
    /\ Val(sums).monthly_sums[1] = 200
    /\ Val(sums).monthly_sums[12] = 100

\* C18: once the cache was cleared, no fetch of a query that was memoized
\* then is served from the cache before the function body (with its network
\* call) has run again for that query, the TTL window notwithstanding.
C18_ClearedIsRefetched ==
    [][\A c \in Callers :
          (callers[c].pc # "done" \/ callers'[c] # callers[c])
          /\ callers'[c].pc = "done" /\ callers'[c].hit
          => callers'[c].query \notin cleared]_vars

C18_RefetchedInsideTheWindow ==
    /\ now = 0
    /\ cleared = {}
    /\ callers["t1"].pc = "done" /\ callers["t1"].query = "q1"
    /\ ~callers["t1"].fresh /\ ~callers["t1"].hit
    /\ callers["t2"].pc = "done" /\ callers["t2"].query = "q1"
    /\ callers["t2"].fresh /\ ~callers["t2"].hit
    /\ callers["t2"].out.posts >= 1
    /\ "q1" \in DOMAIN cache

\* C20: fetch_batch_traffic_data has not returned, and the sums are not
\* computed, before every submitted future is resolved; what is summed holds
\* the data of every future that delivered some.
C20_JoinBeforeCombining ==
    /\ (pc \in {"returned", "summed"} \/ ~IsNone(sums)) =>
          \A i \in DOMAIN futures : futures[i].state = "finished"
    /\ ~IsNone(sums) =>
          \A i \in DOMAIN futures :
              (~read_month(futures[i].ret).raised
               /\ ~IsNone(read_month(futures[i].ret).monthly_data))
              => \E k \in DOMAIN traffic_data_dict :
                    traffic_data_dict[k].point_id = point_ids[i]

C20_FourFetchesSummed ==
    /\ pc = "summed"
    /\ Len(futures) = 4
    /\ ~IsNone(sums)
    /\ Len(traffic_data_dict) = 4

\* C21: within one invocation of fetch_data a wait precedes every retry:
\* after failed attempt k (a transport failure or a timeout) the invocation
\* has slept k times, the k-th time for k * API_RETRY_DELAY seconds, and
\* nothing is slept after the final attempt.
C21_WaitBeforeEveryRetry ==
    /\ inv.status = "running" => Len(inv.slept) = inv.posts
    /\ Len(inv.slept) <= API_MAX_RETRIES - 1
    /\ \A k \in DOMAIN inv.slept : inv.slept[k] = k * API_RETRY_DELAY

\* the place of a sensor id among the ids in ascending order
id_rank(p) == CHOOSE i \in DOMAIN AllPoints : AllPoints[i] = p

\* the point ids whose future delivered monthly data, in the order of point_ids
Delivered ==
    LET has_data(i) == /\ ~read_month(futures[i].ret).raised
                       /\ ~IsNone(read_month(futures[i].ret).monthly_data)
        idx == SelectSeq([i \in DOMAIN futures |-> i], has_data)
    IN  [k \in DOMAIN idx |-> point_ids[idx[k]]]

\* C22 (as stated): the contributions that are summed are in ascending order
\* of sensor id.
C22_SensorIdOrder ==
    pc = "summed" =>
        \A a, b \in DOMAIN traffic_data_dict :
            a < b => id_rank(traffic_data_dict[a].point_id)
                         < id_rank(traffic_data_dict[b].point_id)

\* C22 (amended): the contributions that are summed are those of the sensors
\* that delivered data, in the order of the ids in point_ids (the order the
\* fetches were submitted in), whatever order the fetches completed in; the
\* sums are those of that sequence.
C22_SubmissionOrder ==
    /\ pc \in {"returned", "summed"} => result_keys = Delivered
    /\ pc = "summed" =>
          /\ [k \in DOMAIN traffic_data_dict |-> traffic_data_dict[k].point_id]
                = Delivered
          /\ sums = Some(sum_traffic_data(traffic_data_dict))

C22_LastSubmittedCompletedFirst ==
    /\ pc = "summed"
    /\ point_ids = <<"A", "B", "C">>
    /\ first_done = 3
    /\ Len(traffic_data_dict) = 3

\* C23: in each of the three modes, when no sensor delivered data for any
\* requested year or week, main gets None or an empty frame and stops at
\* lines 1017-1019: a frame that main goes on to render holds a column of
\* volumes (a year column, or Volume in the weeks mode).
C23_NoDataIsExplicit ==
    HasFrame =>
        \/ YearLabels(TheFrame) # << >>
        \/ "Volume" \in Range(TheFrame.columns)

\* C24: at every moment of a monthly batch at most 3 of its sensor fetches
\* are being run by the pool, however many point ids were submitted; the
\* others wait in the queue or are finished.
C24_AtMostThreeInFlight ==
    /\ Cardinality(Running) <= 3
    /\ Running \subseteq 1..Len(point_ids)

C24_FourthFetchQueued ==
    /\ pc = "collect"
    /\ Len(point_ids) = 4
    /\ Cardinality(Running) = 3
    /\ futures[4].state = "pending"

\* a completed call that ended in failure: fetch_data returned None, the
\* batch function a dict without the data of some of its sensors
Failed(c) ==
    IF callers[c].query \in BatchKeys
    THEN DOMAIN callers[c].out.ret # Range(BatchQueries)
    ELSE IsNone(callers[c].out.ret)

\* C25: a failed outcome is memoized as a successful one is.  After a call of
\* fetch_data that ran the body and returned None (retries exhausted, or a
\* GraphQL error), a call with the identical query in the same window (inside
\* the TTL, no clear) returns None from the cache and issues no POST; and a
\* repeated call of the batch function returns the partial or empty dict of
\* the first one and fetches nothing.
C25_FailureIsMemoized ==
    \A c, d \in Callers :
        (SameWindow(c, d) /\ ~callers[c].hit /\ Failed(c)) =>
            /\ callers[d].hit
            /\ callers[d].out.posts = 0
            /\ callers[d].out.ret = callers[c].out.ret
            /\ Failed(d)
            /\ callers[c].query \in DOMAIN cache
            /\ cache[callers[c].query].value = callers[c].out.ret

C25_FailureServedAgain ==
    /\ SameWindow("t1", "t2")
    /\ callers["t1"].query = "q1"
    /\ ~callers["t1"].hit
    /\ callers["t1"].out.posts = 3
    /\ callers["t1"].out.notice = "timeout"
    /\ IsNone(callers["t1"].out.ret)
    /\ callers["t2"].hit
    /\ IsNone(callers["t2"].out.ret)
    /\ now = TickSeconds
    /\ "b1" \in DOMAIN cache
    /\ DOMAIN cache["b1"].value = {"q2"}

====
